---- MODULE Spec2Model ----
(***************************************************************************)
(* ISA interrupt-storm generator (QEMU device model) and the seL4 consumer *)
(* that drives it.  The device state is the record s (struct               *)
(* ISAIrqStormState plus the state of its QEMUTimer and io region); every  *)
(* register access and every timer callback is one atomic action, as the   *)
(* emulated bus serialises them.                                           *)
(***************************************************************************)
EXTENDS Integers, Sequences, FiniteSets, TLC

VARIABLES s, now, last, lvl, rd, epoch, cons, irqc

vars == <<s, now, last, lvl, rd, epoch, cons, irqc>>

----------------------------------------------------------------------------
(* Bounds of the exploration.                                              *)

MaxNow == 4700
MaxFires == 2
MaxCfgWrites == 2
WordBits == 20

TickSteps == {1000, 3700}

(* Values offered to the registers and to the construction properties.     *)
CtrlVals == {0, 1, 2, 7}
BurstVals == {0, 100001}
PeriodVals == {0, 1049, 131072}
AckVals == {0, 1}
OtherVals == {1}
LineProps == {15, 16}
SizeProps == {31, 32}
BurstProps == {5}
PeriodProps == {1}

----------------------------------------------------------------------------
(* Register map and bit masks.                                             *)

IRQ_STORM_REG_CTRL == 0
IRQ_STORM_REG_IRQ == 1
IRQ_STORM_REG_BURST == 2
IRQ_STORM_REG_STATUS == 3
IRQ_STORM_REG_PERIOD_US == 4
IRQ_STORM_REG_PULSES_LO == 8
IRQ_STORM_REG_PULSES_HI == 12
IRQ_STORM_REG_TIMER_CB == 16
IRQ_STORM_REG_CFG_WRITES == 20
IRQ_STORM_REG_EN_TOGGLES == 24
IRQ_STORM_REG_ACK == 28

IRQ_STORM_CTRL_ENABLE == 1
IRQ_STORM_CTRL_LEVEL == 2

IRQ_STORM_STATUS_ENABLED == 1
IRQ_STORM_STATUS_ASSERT == 2
IRQ_STORM_STATUS_LEVEL == 4

IRQ_STORM_MAX_BURST == 100000

SCALE_US == 1000

MaxIsaIrq == 15
MinIoSize == 32

(* Width of a machine word.  TLC computes with 32-bit integers, so the      *)
(* uint32_t word of the source is modelled WordBits wide and U32 is its    *)
(* modulus: registers, (uint32_t) casts and the 32-bit product in          *)
(* irq_storm_period_ns wrap at U32, and a uint64_t counter is a double     *)
(* word whose halves PULSES_LO/PULSES_HI are its value modulo and divided  *)
(* by U32.  The wrap of a double word is out of reach of the bounds and is *)
(* not modelled.                                                           *)
U32 == 2^WordBits

Max(a, b) == IF a > b THEN a ELSE b
Min(a, b) == IF a < b THEN a ELSE b

(* x & mask for a single-bit mask.                                         *)
HasBit(x, mask) == (x \div mask) % 2 = 1



ReadableRegs ==
  { IRQ_STORM_REG_CTRL, IRQ_STORM_REG_IRQ, IRQ_STORM_REG_BURST,
    IRQ_STORM_REG_STATUS, IRQ_STORM_REG_PERIOD_US, IRQ_STORM_REG_PULSES_LO,
    IRQ_STORM_REG_PULSES_HI, IRQ_STORM_REG_TIMER_CB,
    IRQ_STORM_REG_CFG_WRITES, IRQ_STORM_REG_EN_TOGGLES }

WritableRegs ==
  { IRQ_STORM_REG_CTRL, IRQ_STORM_REG_BURST, IRQ_STORM_REG_PERIOD_US,
    IRQ_STORM_REG_ACK }

(* Every offset of the io window and the first one past it.                *)
Addrs == 0..32

(* Offsets the reads and writes of the exploration use: registers, and     *)
(* offsets that are none (inside the bytes of PERIOD_US and of ACK); ACK   *)
(* is write-only and STATUS is read-only.                                 *)
ReadAddrs == {IRQ_STORM_REG_STATUS, IRQ_STORM_REG_ACK, 5}

OtherWriteAddrs == {IRQ_STORM_REG_STATUS, 29}

----------------------------------------------------------------------------
(* The device object before realize: properties set, everything else zero. *)

ISAIrqStormState(line, size, b, p, en, lv) ==
  [ life |-> "created",
    isairq |-> line, iosize |-> size, burst |-> b, period_us |-> p,
    start_enabled |-> en, level_triggered |-> lv,
    control |-> 0, irq_asserted |-> FALSE, next_deadline_ns |-> 0,
    pulses_emitted |-> 0, timer_cb_count |-> 0, config_writes |-> 0,
    enable_toggle_count |-> 0,
    timer_created |-> FALSE, timer_pending |-> FALSE, timer_expire |-> 0,
    io_mapped |-> FALSE, irq_level |-> 0 ]

----------------------------------------------------------------------------
(* Helpers of the device.                                                  *)

(* MAX(1U, period_us) * SCALE_US is an unsigned 32-bit product, widened to *)
(* 64 bits only on return.                                                 *)
irq_storm_period_ns(st) == (Max(1, st.period_us) * SCALE_US) % U32

irq_storm_irq_deassert(st) ==
  IF st.irq_asserted
    THEN [st EXCEPT !.irq_level = 0, !.irq_asserted = FALSE]
    ELSE st

timer_mod(st, expire) ==
  [st EXCEPT !.timer_pending = TRUE, !.timer_expire = expire]

timer_del(st) == [st EXCEPT !.timer_pending = FALSE]

irq_storm_schedule_from_now(st, t) ==
  IF ~HasBit(st.control, IRQ_STORM_CTRL_ENABLE)
    THEN st
    ELSE LET s1 == [st EXCEPT !.next_deadline_ns = t + irq_storm_period_ns(st)]
         IN  timer_mod(s1, s1.next_deadline_ns)

(* The quotient (now - next_deadline_ns) / period_ns.  For period_ns = 0   *)
(* the division is undefined: the build either traps (x86 #DE, reported    *)
(* here as -1) or yields 0 (AArch64 udiv).                                 *)
missed_quotients(diff, period_ns) ==
  IF period_ns = 0 THEN {-1, 0} ELSE {diff \div period_ns}

(* The states irq_storm_schedule_next can leave the device in.             *)
irq_storm_schedule_next(st, t) ==
  IF ~HasBit(st.control, IRQ_STORM_CTRL_ENABLE)
    THEN {st}
    ELSE LET period_ns == irq_storm_period_ns(st)
             s1 == [st EXCEPT !.next_deadline_ns = @ + period_ns]
         IN  IF s1.next_deadline_ns <= t
               THEN { IF q < 0
                        THEN [s1 EXCEPT !.life = "crashed"]
                        ELSE LET missed == q + 1
                                 s2 == [s1 EXCEPT !.next_deadline_ns =
                                                     @ + missed * period_ns]
                             IN  timer_mod(s2, s2.next_deadline_ns)
                      : q \in missed_quotients(t - s1.next_deadline_ns,
                                               period_ns) }
               ELSE {timer_mod(s1, s1.next_deadline_ns)}

(* Number of edge pulses of one fire.                                      *)
burst_pulses_unclamped(b) == Min(b, IRQ_STORM_MAX_BURST)

burst_pulses_no_ceiling(b) == Max(1, b)

burst_pulses(b) == Min(Max(1, b), IRQ_STORM_MAX_BURST)

(* Edge-mode branch of the fire: the pulses leave the line low.            *)
fire_edge_assign(st) ==
  [st EXCEPT !.irq_level = 0,
             !.pulses_emitted = burst_pulses(st.burst)]

fire_edge(st) ==
  [st EXCEPT !.irq_level = 0,
             !.pulses_emitted = @ + burst_pulses(st.burst)]

(* Level-mode branch of the fire.                                          *)
fire_level_always(st) ==
  [st EXCEPT !.irq_level = 1, !.irq_asserted = TRUE,
             !.pulses_emitted = @ + 1]

(* Level-mode branch raising the line without recording it.               *)
fire_level_no_flag(st) ==
  IF ~st.irq_asserted
    THEN [st EXCEPT !.irq_level = 1, !.pulses_emitted = @ + 1]
    ELSE st

fire_level(st) ==
  IF ~st.irq_asserted
    THEN [st EXCEPT !.irq_level = 1, !.irq_asserted = TRUE,
                    !.pulses_emitted = @ + 1]
    ELSE st

(* The states one run of the timer callback can leave the device in.       *)
irq_storm_timer_cb(st, t) ==
  IF ~HasBit(st.control, IRQ_STORM_CTRL_ENABLE)
    THEN {st}
    ELSE LET s1 == [st EXCEPT !.timer_cb_count = @ + 1]
             s2 == IF HasBit(s1.control, IRQ_STORM_CTRL_LEVEL)
                     THEN fire_level(s1)
                     ELSE fire_edge(s1)
         IN  irq_storm_schedule_next(s2, t)

----------------------------------------------------------------------------
(* Register file.                                                          *)

(* The status byte with the LEVEL flag or-ed in with the control mask.     *)
status_bits_ctrl_mask(st) ==
  (IF HasBit(st.control, IRQ_STORM_CTRL_ENABLE)
     THEN IRQ_STORM_STATUS_ENABLED ELSE 0)
  + (IF st.irq_asserted \/ HasBit(st.control, IRQ_STORM_CTRL_LEVEL)
       THEN IRQ_STORM_STATUS_ASSERT ELSE 0)

status_bits(st) ==
  (IF HasBit(st.control, IRQ_STORM_CTRL_ENABLE)
     THEN IRQ_STORM_STATUS_ENABLED ELSE 0)
  + (IF st.irq_asserted THEN IRQ_STORM_STATUS_ASSERT ELSE 0)
  + (IF HasBit(st.control, IRQ_STORM_CTRL_LEVEL)
       THEN IRQ_STORM_STATUS_LEVEL ELSE 0)

irq_storm_read_word_decode(st, addr) ==
  LET a == addr - (addr % 4)
  IN  CASE a = IRQ_STORM_REG_CTRL -> st.control
        [] a = IRQ_STORM_REG_PERIOD_US -> st.period_us
        [] a = IRQ_STORM_REG_PULSES_LO -> st.pulses_emitted % U32
        [] a = IRQ_STORM_REG_PULSES_HI -> (st.pulses_emitted \div U32) % U32
        [] a = IRQ_STORM_REG_TIMER_CB -> st.timer_cb_count % U32
        [] a = IRQ_STORM_REG_CFG_WRITES -> st.config_writes % U32
        [] a = IRQ_STORM_REG_EN_TOGGLES -> st.enable_toggle_count % U32
        [] OTHER -> 0

irq_storm_read(st, addr) ==
  CASE addr = IRQ_STORM_REG_CTRL -> st.control
    [] addr = IRQ_STORM_REG_IRQ -> st.isairq
    [] addr = IRQ_STORM_REG_BURST -> st.burst
    [] addr = IRQ_STORM_REG_STATUS -> status_bits(st)
    [] addr = IRQ_STORM_REG_PERIOD_US -> st.period_us
    [] addr = IRQ_STORM_REG_PULSES_LO -> st.pulses_emitted % U32
    [] addr = IRQ_STORM_REG_PULSES_HI -> (st.pulses_emitted \div U32) % U32
    [] addr = IRQ_STORM_REG_TIMER_CB -> st.timer_cb_count % U32
    [] addr = IRQ_STORM_REG_CFG_WRITES -> st.config_writes % U32
    [] addr = IRQ_STORM_REG_EN_TOGGLES -> st.enable_toggle_count % U32
    [] OTHER -> 0

(* case IRQ_STORM_REG_CTRL, with the timer left armed on disable.          *)
write_ctrl_no_timer_del(st, val, t) ==
  LET old_control == st.control
      new_control == val % 4
      was_level == HasBit(old_control, IRQ_STORM_CTRL_LEVEL)
      was_enabled == HasBit(old_control, IRQ_STORM_CTRL_ENABLE)
      s1 == IF new_control # old_control
              THEN [st EXCEPT !.config_writes = @ + 1,
                              !.control = new_control]
              ELSE st
      is_level == HasBit(s1.control, IRQ_STORM_CTRL_LEVEL)
      s2 == IF was_level /\ ~is_level THEN irq_storm_irq_deassert(s1) ELSE s1
      is_enabled == HasBit(s2.control, IRQ_STORM_CTRL_ENABLE)
      s3 == IF is_enabled # was_enabled
              THEN [s2 EXCEPT !.enable_toggle_count = @ + 1]
              ELSE s2
  IN  IF is_enabled
        THEN IF ~was_enabled THEN irq_storm_schedule_from_now(s3, t) ELSE s3
        ELSE irq_storm_irq_deassert(s3)

(* case IRQ_STORM_REG_CTRL, counting a toggle on every control change.     *)
write_ctrl_toggle_on_change(st, val, t) ==
  LET old_control == st.control
      new_control == val % 4
      was_level == HasBit(old_control, IRQ_STORM_CTRL_LEVEL)
      was_enabled == HasBit(old_control, IRQ_STORM_CTRL_ENABLE)
      s1 == IF new_control # old_control
              THEN [st EXCEPT !.config_writes = @ + 1,
                              !.control = new_control]
              ELSE st
      is_level == HasBit(s1.control, IRQ_STORM_CTRL_LEVEL)
      s2 == IF was_level /\ ~is_level THEN irq_storm_irq_deassert(s1) ELSE s1
      is_enabled == HasBit(s2.control, IRQ_STORM_CTRL_ENABLE)
      s3 == IF new_control # old_control
              THEN [s2 EXCEPT !.enable_toggle_count = @ + 1]
              ELSE s2
  IN  IF is_enabled
        THEN IF ~was_enabled THEN irq_storm_schedule_from_now(s3, t) ELSE s3
        ELSE irq_storm_irq_deassert(timer_del(s3))

(* case IRQ_STORM_REG_CTRL, without the deassert on LEVEL 1 -> 0.          *)
write_ctrl_keep_on_level_clear(st, val, t) ==
  LET old_control == st.control
      new_control == val % 4
      was_enabled == HasBit(old_control, IRQ_STORM_CTRL_ENABLE)
      s1 == IF new_control # old_control
              THEN [st EXCEPT !.config_writes = @ + 1,
                              !.control = new_control]
              ELSE st
      is_enabled == HasBit(s1.control, IRQ_STORM_CTRL_ENABLE)
      s3 == IF is_enabled # was_enabled
              THEN [s1 EXCEPT !.enable_toggle_count = @ + 1]
              ELSE s1
  IN  IF is_enabled
        THEN IF ~was_enabled THEN irq_storm_schedule_from_now(s3, t) ELSE s3
        ELSE irq_storm_irq_deassert(timer_del(s3))

(* case IRQ_STORM_REG_CTRL, counting a toggle only as ENABLE is set.       *)
write_ctrl_toggle_on_enable(st, val, t) ==
  LET old_control == st.control
      new_control == val % 4
      was_level == HasBit(old_control, IRQ_STORM_CTRL_LEVEL)
      was_enabled == HasBit(old_control, IRQ_STORM_CTRL_ENABLE)
      s1 == IF new_control # old_control
              THEN [st EXCEPT !.config_writes = @ + 1,
                              !.control = new_control]
              ELSE st
      is_level == HasBit(s1.control, IRQ_STORM_CTRL_LEVEL)
      s2 == IF was_level /\ ~is_level THEN irq_storm_irq_deassert(s1) ELSE s1
      is_enabled == HasBit(s2.control, IRQ_STORM_CTRL_ENABLE)
      s3 == IF is_enabled /\ ~was_enabled
              THEN [s2 EXCEPT !.enable_toggle_count = @ + 1]
              ELSE s2
  IN  IF is_enabled
        THEN IF ~was_enabled THEN irq_storm_schedule_from_now(s3, t) ELSE s3
        ELSE irq_storm_irq_deassert(timer_del(s3))

(* case IRQ_STORM_REG_CTRL                                                 *)
write_ctrl(st, val, t) ==
  LET old_control == st.control
      new_control == val % 4
      was_level == HasBit(old_control, IRQ_STORM_CTRL_LEVEL)
      was_enabled == HasBit(old_control, IRQ_STORM_CTRL_ENABLE)
      s1 == IF new_control # old_control
              THEN [st EXCEPT !.config_writes = @ + 1,
                              !.control = new_control]
              ELSE st
      is_level == HasBit(s1.control, IRQ_STORM_CTRL_LEVEL)
      s2 == IF was_level /\ ~is_level THEN irq_storm_irq_deassert(s1) ELSE s1
      is_enabled == HasBit(s2.control, IRQ_STORM_CTRL_ENABLE)
      s3 == IF is_enabled # was_enabled
              THEN [s2 EXCEPT !.enable_toggle_count = @ + 1]
              ELSE s2
  IN  IF is_enabled
        THEN IF ~was_enabled THEN irq_storm_schedule_from_now(s3, t) ELSE s3
        ELSE irq_storm_irq_deassert(timer_del(s3))

(* case IRQ_STORM_REG_BURST, counting every write.                         *)
write_burst_count_all(st, val) ==
  [st EXCEPT !.burst = val % U32, !.config_writes = @ + 1]

(* case IRQ_STORM_REG_BURST                                                *)
write_burst(st, val) ==
  IF val % U32 # st.burst
    THEN [st EXCEPT !.burst = val % U32, !.config_writes = @ + 1]
    ELSE st

(* case IRQ_STORM_REG_PERIOD_US                                            *)
write_period_us(st, val, t) ==
  IF val % U32 # st.period_us
    THEN LET s1 == [st EXCEPT !.period_us = val % U32,
                              !.config_writes = @ + 1]
         IN  IF HasBit(s1.control, IRQ_STORM_CTRL_ENABLE)
               THEN irq_storm_schedule_from_now(s1, t)
               ELSE s1
    ELSE st

(* case IRQ_STORM_REG_ACK, deasserting whatever the value.                 *)
write_ack_any_value(st, val) == irq_storm_irq_deassert(st)

(* case IRQ_STORM_REG_ACK                                                  *)
write_ack(st, val) == IF val # 0 THEN irq_storm_irq_deassert(st) ELSE st

irq_storm_write(st, addr, val, t) ==
  CASE addr = IRQ_STORM_REG_CTRL -> write_ctrl(st, val, t)
    [] addr = IRQ_STORM_REG_BURST -> write_burst(st, val)
    [] addr = IRQ_STORM_REG_PERIOD_US -> write_period_us(st, val, t)
    [] addr = IRQ_STORM_REG_ACK -> write_ack(st, val)
    [] OTHER -> st

----------------------------------------------------------------------------
(* Construction.                                                           *)

or_bit(c, mask) == IF HasBit(c, mask) THEN c ELSE c + mask

(* realize with the line check off by one.                                 *)
irq_storm_realize_line16(st, t) ==
  IF st.isairq > MaxIsaIrq + 1 \/ st.iosize < MinIoSize
    THEN [st EXCEPT !.life = "error"]
    ELSE LET s1 == [st EXCEPT !.life = "realized", !.timer_created = TRUE,
                              !.io_mapped = TRUE]
             s2 == IF s1.level_triggered
                     THEN [s1 EXCEPT !.control = or_bit(@, IRQ_STORM_CTRL_LEVEL)]
                     ELSE s1
         IN  IF s2.start_enabled
               THEN irq_storm_schedule_from_now(
                      [s2 EXCEPT !.control = or_bit(@, IRQ_STORM_CTRL_ENABLE)], t)
               ELSE s2

irq_storm_realize(st, t) ==
  IF st.isairq > MaxIsaIrq
    THEN [st EXCEPT !.life = "error"]
    ELSE IF st.iosize < MinIoSize
      THEN [st EXCEPT !.life = "error"]
      ELSE LET s1 == [st EXCEPT !.life = "realized", !.timer_created = TRUE,
                                !.io_mapped = TRUE]
               s2 == IF s1.level_triggered
                       THEN [s1 EXCEPT !.control =
                               or_bit(@, IRQ_STORM_CTRL_LEVEL)]
                       ELSE s1
           IN  IF s2.start_enabled
                 THEN irq_storm_schedule_from_now(
                        [s2 EXCEPT !.control =
                           or_bit(@, IRQ_STORM_CTRL_ENABLE)], t)
                 ELSE s2

----------------------------------------------------------------------------
(* Consumer side: 32-bit port read and the stable 64-bit read.             *)

(* io_in32 keeps the low 32 bits of what the device returned; reg is the   *)
(* port with STORM_IOBASE already subtracted by the bus.                   *)
io_in32(st, reg) == irq_storm_read(st, reg) % U32

(* (uint8_t)r.result of seL4_X86_IOPort_In8                                *)
io_in8(st, reg) == irq_storm_read(st, reg) % 256

(* Loop condition of read_u64_lohi_stable, never retrying.                 *)
lohi_retry_never(hi1, hi2) == FALSE

(* Loop condition of read_u64_lohi_stable: while (hi1 != hi2).             *)
lohi_retry(hi1, hi2) == hi1 # hi2

(* ((uint64_t)hi2 << 32) | lo                                              *)
lohi_value(hi2, lo) == hi2 * U32 + lo

----------------------------------------------------------------------------
(* History kept for the properties.                                        *)
(*   last  : the last device operation, its inputs, its result and the     *)
(*           device state it started from (s is the state it produced)     *)
(*   lvl   : line raises and pulses counted while LEVEL stays set, since   *)
(*           the last ACK write (ack) and since the last ACK write or      *)
(*           cleared ENABLE (en)                                           *)
(*   epoch : time and counters at the start of the behaviour               *)

(*   cons  : the consumer's program counter, variables and, per wake, what *)
(*           woke it and which acknowledgments it has issued; base0 is the *)
(*           baseline read before the loop and sum the deltas reported     *)
(*   irqc  : the interrupt path from the device's line to the consumer's   *)
(*           notification: bound once the handler has its notification,    *)
(*           masked from a delivery until the handler acknowledges it      *)

NoOp(st) == [op |-> "none", addr |-> 0, val |-> 0, ret |-> 0, pre |-> st]

Op(o, a, v, r) == [op |-> o, addr |-> a, val |-> v, ret |-> r, pre |-> s]

Zero == [r |-> 0, p |-> 0]

Count(c, pre, post) ==
  [ r |-> c.r + (IF ~pre.irq_asserted /\ post.irq_asserted THEN 1 ELSE 0),
    p |-> c.p + (post.pulses_emitted - pre.pulses_emitted) ]

LvlAfter(isAck, pre, post) ==
  LET level == HasBit(post.control, IRQ_STORM_CTRL_LEVEL)
      enable == HasBit(post.control, IRQ_STORM_CTRL_ENABLE)
  IN  [ ack |-> IF ~level \/ isAck THEN Zero ELSE Count(lvl.ack, pre, post),
        en  |-> IF ~level \/ isAck \/ ~enable
                  THEN Zero ELSE Count(lvl.en, pre, post) ]

RdIdle == [pc |-> "idle", hi1 |-> 0, lo |-> 0, hi2 |-> 0, ret |-> 0,
           held |-> {}]

RdActive == rd.pc \in {"hi1", "lo", "hi2", "first_lo", "first_hi"}

NoCause == [kind |-> "none", fires |-> 0, pulses |-> 0]

IrqUnbound ==
  [bound |-> FALSE, masked |-> FALSE, ntfn |-> FALSE,
   cause |-> NoCause, high |-> NoCause]

(* The handler of IRQ 5 bound to the notification and acknowledged once.   *)
IrqBound == [IrqUnbound EXCEPT !.bound = TRUE]

(* What one device step does to the interrupt path. The pin is level       *)
(* triggered: a raise or a pulse of the line while the handler is bound    *)
(* and not masked signals the notification and masks the interrupt; `high` *)
(* remembers the fire that raised a line left high.                        *)
irq_deliver(ic, pre, post) ==
  LET raised == pre.irq_level = 0 /\ post.irq_level = 1
      pulsed == post.irq_level = 0
                /\ post.pulses_emitted > pre.pulses_emitted
      by == [kind |-> IF raised THEN "raise" ELSE "pulse",
             fires |-> post.timer_cb_count,
             pulses |-> post.pulses_emitted]
      ic1 == IF ic.bound /\ raised THEN [ic EXCEPT !.high = by] ELSE ic
  IN  IF ic.bound /\ ~ic.masked /\ (raised \/ pulsed)
        THEN [ic1 EXCEPT !.ntfn = TRUE, !.masked = TRUE, !.cause = by]
        ELSE ic1

(* seL4_IRQHandler_Ack that succeeded, on a pin that forgets a line       *)
(* raised while the interrupt was masked.                                  *)
irq_unmask_no_redeliver(ic, st) == [ic EXCEPT !.masked = FALSE]

(* seL4_IRQHandler_Ack that succeeded: the interrupt is unmasked, and a    *)
(* line still high is delivered again at once.                             *)
irq_unmask(ic, st) ==
  IF st.irq_level = 1
    THEN [ic EXCEPT !.ntfn = TRUE, !.masked = TRUE, !.cause = ic.high]
    ELSE [ic EXCEPT !.masked = FALSE]

NoCounts == [pulses |-> 0, timer_cb |-> 0, cfg_writes |-> 0, en_toggles |-> 0]

ConsOff ==
  [ pc |-> "off", handled |-> 0, last_badge |-> 0, last_status |-> 0,
    last_pulses |-> 0, last_timer_cb |-> 0, last_cfg_writes |-> 0,
    last_en_toggles |-> 0,
    pulses |-> 0, timer_cb |-> 0, cfg_writes |-> 0, en_toggles |-> 0,
    dpulses |-> 0, dtimer_cb |-> 0, dcfg |-> 0, dtog |-> 0,
    cur_ctrl |-> 0, cur_burst |-> 0, cur_period |-> 0, err |-> 0,
    base0 |-> NoCounts, sum |-> NoCounts,
    woke |-> NoCause, woke_handled |-> 0,
    dev_acked |-> FALSE, irq_acked |-> FALSE ]

----------------------------------------------------------------------------
(* Actions.                                                                *)

Init ==
  /\ s \in { ISAIrqStormState(line, size, b, p, en, lv) :
               line \in LineProps, size \in SizeProps, b \in BurstProps,
               p \in PeriodProps, en \in BOOLEAN, lv \in BOOLEAN }
  /\ now = 0
  /\ last = NoOp(s)
  /\ lvl = [ack |-> Zero, en |-> Zero]
  /\ rd = RdIdle
  /\ epoch = [t |-> 0, fires |-> 0, cfg |-> 0]
  /\ cons = ConsOff
  /\ irqc = IrqUnbound

Realize ==
  /\ s.life = "created"
  /\ s' = irq_storm_realize(s, now)
  /\ last' = Op("realize", 0, 0, 0)
  /\ lvl' = LvlAfter(FALSE, s, s')
  /\ UNCHANGED <<now, rd, epoch, cons, irqc>>

Read ==
  /\ s.life = "realized"
  /\ \E addr \in ReadAddrs :
       last' = Op("read", addr, 0, irq_storm_read(s, addr))
  /\ UNCHANGED <<s, now, lvl, rd, epoch, cons, irqc>>

WriteInputs ==
  ({IRQ_STORM_REG_CTRL} \X CtrlVals)
  \cup ({IRQ_STORM_REG_BURST} \X BurstVals)
  \cup ({IRQ_STORM_REG_PERIOD_US} \X PeriodVals)
  \cup ({IRQ_STORM_REG_ACK} \X AckVals)
  \cup (OtherWriteAddrs \X OtherVals)

Write ==
  /\ s.life = "realized"
  /\ \E in \in WriteInputs :
       LET post == irq_storm_write(s, in[1], in[2], now)
       IN  /\ post.config_writes <= epoch.cfg + MaxCfgWrites
           /\ s' = post
           /\ last' = Op("write", in[1], in[2], 0)
           /\ lvl' = LvlAfter(in[1] = IRQ_STORM_REG_ACK, s, post)
  /\ UNCHANGED <<now, rd, epoch, cons, irqc>>

(* The timer subsystem takes an expired timer off its list and runs the    *)
(* callback.                                                               *)
TimerFire ==
  /\ s.life = "realized"
  /\ s.timer_pending
  /\ now >= s.timer_expire
  /\ s.timer_cb_count < epoch.fires + MaxFires
  /\ \E post \in irq_storm_timer_cb(timer_del(s), now) :
       /\ s' = post
       /\ last' = Op("fire", 0, 0, 0)
       /\ lvl' = LvlAfter(FALSE, s, post)
       /\ irqc' = irq_deliver(irqc, s, post)
       /\ rd' = IF RdActive
                  THEN [rd EXCEPT !.held = @ \cup {post.pulses_emitted}]
                  ELSE rd
  /\ UNCHANGED <<now, epoch, cons>>

Tick ==
  /\ s.life = "realized"
  /\ \E d \in TickSteps :
       /\ now + d <= epoch.t + MaxNow
       /\ now' = now + d
  /\ UNCHANGED <<s, last, lvl, rd, epoch, cons, irqc>>

Next == Realize \/ Read \/ Write \/ TimerFire \/ Tick

Spec == Init /\ [][Next]_vars

----------------------------------------------------------------------------
(* read_u64_lohi_stable(io, REG_PULSES_LO, REG_PULSES_HI), one register    *)
(* read per step, against a device whose pulses counter is about to carry  *)
(* into its high word.                                                     *)

(* The device and clock after realize at time 0 with burst 5, period 1 us, *)
(* start-enabled, edge mode, and n fires, each run at its deadline.        *)
AfterFires(n) ==
  [ ISAIrqStormState(15, 32, 5, 1, TRUE, FALSE) EXCEPT
      !.life = "realized", !.timer_created = TRUE, !.io_mapped = TRUE,
      !.control = IRQ_STORM_CTRL_ENABLE,
      !.pulses_emitted = 5 * n, !.timer_cb_count = n,
      !.next_deadline_ns = (n + 1) * SCALE_US,
      !.timer_pending = TRUE, !.timer_expire = (n + 1) * SCALE_US ]

NearCarry == {U32 \div 5 - 1, U32 \div 5}

InitRead ==
  \E n \in NearCarry :
    /\ s = AfterFires(n)
    /\ now = n * SCALE_US
    /\ last = NoOp(s)
    /\ lvl = [ack |-> Zero, en |-> Zero]
    /\ rd = RdIdle
    /\ epoch = [t |-> n * SCALE_US, fires |-> n, cfg |-> 0]
    /\ cons = ConsOff
    /\ irqc = IrqUnbound

RdCall ==
  /\ rd.pc \in {"idle", "done"}
  /\ rd' = [RdIdle EXCEPT !.pc = "hi1", !.held = {s.pulses_emitted}]
  /\ UNCHANGED <<s, now, last, lvl, epoch, cons, irqc>>

RdHi1 ==
  /\ rd.pc = "hi1"
  /\ rd' = [rd EXCEPT !.pc = "lo",
                      !.hi1 = io_in32(s, IRQ_STORM_REG_PULSES_HI)]
  /\ UNCHANGED <<s, now, last, lvl, epoch, cons, irqc>>

RdLo ==
  /\ rd.pc = "lo"
  /\ rd' = [rd EXCEPT !.pc = "hi2",
                      !.lo = io_in32(s, IRQ_STORM_REG_PULSES_LO)]
  /\ UNCHANGED <<s, now, last, lvl, epoch, cons, irqc>>

RdHi2 ==
  /\ rd.pc = "hi2"
  /\ LET hi2 == io_in32(s, IRQ_STORM_REG_PULSES_HI)
     IN  rd' = IF lohi_retry(rd.hi1, hi2)
                 THEN [rd EXCEPT !.pc = "hi1", !.hi2 = hi2]
                 ELSE [rd EXCEPT !.pc = "done", !.hi2 = hi2,
                                 !.ret = lohi_value(hi2, rd.lo)]
  /\ UNCHANGED <<s, now, last, lvl, epoch, cons, irqc>>

NextRead == RdCall \/ RdHi1 \/ RdLo \/ RdHi2 \/ TimerFire \/ Tick

SpecRead == InitRead /\ [][NextRead]_vars

-----------------------------------------------------------------------------
(* The consumer's service loop, from the first seL4_Wait on, against a     *)
(* device of the default line 5, burst 5 and period 1 us. The consumer is  *)
(* the only writer of the registers, and each of its port accesses is one  *)
(* step, serialised with the timer callback.                               *)

STORM_IRQ == 5

report_every_handled == 65536

(* Return values of seL4_IRQHandler_Ack: seL4_NoError and an error.        *)
IrqAckErrs == {0, 1}

(* Handled counts the loop is entered with: the start, two wakes before    *)
(* the first report, and two wakes before the report at which the 32-bit   *)
(* counter registers wrap.                                                 *)
LoopStarts == {0, report_every_handled - 2, U32 - 2}

(* The device after n fires, each at its deadline and serviced at once.    *)
LoopDevice(n, lv) ==
  [ irq_storm_realize(ISAIrqStormState(STORM_IRQ, 32, 5, 1, TRUE, lv), 0)
      EXCEPT !.pulses_emitted = (IF lv THEN 1 ELSE 5) * n,
             !.timer_cb_count = n,
             !.next_deadline_ns = (n + 1) * SCALE_US,
             !.timer_expire = (n + 1) * SCALE_US ]

(* The consumer in seL4_Wait after n iterations, its last report made at   *)
(* the last multiple of the interval, as soon as that fire was serviced.   *)
LoopConsumer(n, lv) ==
  LET k == IF lv THEN 1 ELSE 5
      by == IF n = 0 THEN NoCause
            ELSE [kind |-> IF lv THEN "raise" ELSE "pulse", fires |-> n,
                  pulses |-> k * n]
      at == (n \div report_every_handled) * report_every_handled
      dev == LoopDevice(at, lv)
      c0 == [ ConsOff EXCEPT
                !.pc = "wait", !.handled = n,
                !.last_status =
                   IF n > 0 /\ lv
                     THEN IRQ_STORM_STATUS_ENABLED + IRQ_STORM_STATUS_ASSERT
                          + IRQ_STORM_STATUS_LEVEL
                     ELSE io_in8(LoopDevice(n, lv), IRQ_STORM_REG_STATUS),
                !.woke = by, !.woke_handled = IF n = 0 THEN 0 ELSE n - 1,
                !.dev_acked = (n > 0 /\ lv), !.irq_acked = (n > 0) ]
  IN  IF at = 0 THEN c0
      ELSE [ c0 EXCEPT
               !.pulses = k * at, !.last_pulses = k * at,
               !.timer_cb = io_in32(dev, IRQ_STORM_REG_TIMER_CB),
               !.last_timer_cb = io_in32(dev, IRQ_STORM_REG_TIMER_CB),
               !.dpulses = k * report_every_handled,
               !.dtimer_cb = report_every_handled,
               !.cur_ctrl = io_in8(dev, IRQ_STORM_REG_CTRL),
               !.cur_burst = io_in8(dev, IRQ_STORM_REG_BURST),
               !.cur_period = io_in32(dev, IRQ_STORM_REG_PERIOD_US),
               !.sum = [NoCounts EXCEPT !.pulses = k * at,
                                        !.timer_cb = at] ]

InitLoop ==
  \E n \in LoopStarts, lv \in BOOLEAN :
    /\ s = LoopDevice(n, lv)
    /\ now = n * SCALE_US
    /\ last = NoOp(s)
    /\ lvl = [ack |-> Zero, en |-> Zero]
    /\ rd = RdIdle
    /\ epoch = [t |-> n * SCALE_US, fires |-> n, cfg |-> 0]
    /\ cons = LoopConsumer(n, lv)
    /\ irqc = [IrqBound EXCEPT !.cause = cons.woke,
                               !.high = IF lv THEN cons.woke ELSE NoCause]

(* seL4_Wait(ntfn, &badge); handled++; last_badge = badge;                 *)
ConsWait ==
  /\ cons.pc = "wait"
  /\ irqc.ntfn
  /\ cons' = [cons EXCEPT !.pc = "status", !.handled = @ + 1,
                          !.last_badge = 0,
                          !.woke = irqc.cause, !.woke_handled = cons.handled,
                          !.dev_acked = FALSE, !.irq_acked = FALSE]
  /\ irqc' = [irqc EXCEPT !.ntfn = FALSE]
  /\ UNCHANGED <<s, now, last, lvl, rd, epoch>>

(* status = io_in8(io, REG_STATUS); last_status = status;                  *)
ConsStatus ==
  /\ cons.pc = "status"
  /\ cons' = [cons EXCEPT !.pc = "ack",
                          !.last_status = io_in8(s, IRQ_STORM_REG_STATUS)]
  /\ UNCHANGED <<s, now, last, lvl, rd, epoch, irqc>>

(* The device acknowledgment written as 0.                                 *)
ConsDevAck_write_zero ==
  /\ cons.pc = "ack"
  /\ IF /\ HasBit(cons.last_status, IRQ_STORM_STATUS_LEVEL)
        /\ HasBit(cons.last_status, IRQ_STORM_STATUS_ASSERT)
       THEN /\ s' = irq_storm_write(s, IRQ_STORM_REG_ACK, 0, now)
            /\ last' = Op("write", IRQ_STORM_REG_ACK, 0, 0)
            /\ lvl' = LvlAfter(TRUE, s, s')
            /\ cons' = [cons EXCEPT !.pc = "irq_ack"]
       ELSE /\ cons' = [cons EXCEPT !.pc = "irq_ack"]
            /\ UNCHANGED <<s, last, lvl>>
  /\ UNCHANGED <<now, rd, epoch, irqc>>

(* if ((status & STATUS_LEVEL) && (status & STATUS_ASSERT))                *)
(*     io_out32(io, REG_ACK, 1);                                           *)
ConsDevAck ==
  /\ cons.pc = "ack"
  /\ IF /\ HasBit(cons.last_status, IRQ_STORM_STATUS_LEVEL)
        /\ HasBit(cons.last_status, IRQ_STORM_STATUS_ASSERT)
       THEN /\ s' = irq_storm_write(s, IRQ_STORM_REG_ACK, 1, now)
            /\ last' = Op("write", IRQ_STORM_REG_ACK, 1, 0)
            /\ lvl' = LvlAfter(TRUE, s, s')
            /\ cons' = [cons EXCEPT !.pc = "irq_ack", !.dev_acked = TRUE]
       ELSE /\ cons' = [cons EXCEPT !.pc = "irq_ack"]
            /\ UNCHANGED <<s, last, lvl>>
  /\ UNCHANGED <<now, rd, epoch, irqc>>

(* The test made against the interval itself: (handled & N) == 0.          *)
report_due_bit_test(handled) == (handled \div report_every_handled) % 2 = 0

(* (handled & (report_every_handled - 1)) == 0                             *)
report_due(handled) == handled % report_every_handled = 0

(* The acknowledgment of the handler asserted to succeed.                  *)
ConsIrqAck_assert ==
  /\ cons.pc = "irq_ack"
  /\ \E err \in IrqAckErrs :
       /\ irqc' = IF err = 0 THEN irq_unmask(irqc, s) ELSE irqc
       /\ cons' = [cons EXCEPT
                     !.pc = IF err # 0 THEN "halt"
                            ELSE IF report_due(cons.handled)
                                   THEN "report" ELSE "wait",
                     !.err = err, !.irq_acked = TRUE]
  /\ UNCHANGED <<s, now, last, lvl, rd, epoch>>

(* err = seL4_IRQHandler_Ack(irq_handler); if (err) printf(...);           *)
ConsIrqAck ==
  /\ cons.pc = "irq_ack"
  /\ \E err \in IrqAckErrs :
       /\ irqc' = IF err = 0 THEN irq_unmask(irqc, s) ELSE irqc
       /\ cons' = [cons EXCEPT
                     !.pc = IF report_due(cons.handled)
                              THEN "report" ELSE "wait",
                     !.err = err, !.irq_acked = TRUE]
  /\ UNCHANGED <<s, now, last, lvl, rd, epoch>>

(* pulses = read_u64_lohi_stable(io, REG_PULSES_LO, REG_PULSES_HI): call   *)
ConsRepCall ==
  /\ cons.pc = "report"
  /\ rd' = [RdIdle EXCEPT !.pc = "hi1", !.held = {s.pulses_emitted}]
  /\ cons' = [cons EXCEPT !.pc = "rep_pulses"]
  /\ UNCHANGED <<s, now, last, lvl, epoch, irqc>>

(* pulses = read_u64_lohi_stable(...): return                              *)
ConsRepPulses ==
  /\ cons.pc = "rep_pulses"
  /\ rd.pc = "done"
  /\ cons' = [cons EXCEPT !.pc = "rep_timer_cb", !.pulses = rd.ret]
  /\ rd' = RdIdle
  /\ UNCHANGED <<s, now, last, lvl, epoch, irqc>>

(* The single-register reads of a report, in program order.                *)
ReportReads ==
  << [pc |-> "rep_timer_cb", var |-> "timer_cb",
      reg |-> IRQ_STORM_REG_TIMER_CB, byte |-> FALSE],
     [pc |-> "rep_cfg_writes", var |-> "cfg_writes",
      reg |-> IRQ_STORM_REG_CFG_WRITES, byte |-> FALSE],
     [pc |-> "rep_en_toggles", var |-> "en_toggles",
      reg |-> IRQ_STORM_REG_EN_TOGGLES, byte |-> FALSE],
     [pc |-> "rep_ctrl", var |-> "cur_ctrl",
      reg |-> IRQ_STORM_REG_CTRL, byte |-> TRUE],
     [pc |-> "rep_burst", var |-> "cur_burst",
      reg |-> IRQ_STORM_REG_BURST, byte |-> TRUE],
     [pc |-> "rep_period", var |-> "cur_period",
      reg |-> IRQ_STORM_REG_PERIOD_US, byte |-> FALSE] >>

ConsRepRead ==
  \E i \in 1..Len(ReportReads) :
    LET r == ReportReads[i]
        v == IF r.byte THEN io_in8(s, r.reg) ELSE io_in32(s, r.reg)
        next == IF i < Len(ReportReads)
                  THEN ReportReads[i + 1].pc ELSE "rep_emit"
    IN  /\ cons.pc = r.pc
        /\ cons' = [cons EXCEPT ![r.var] = v, !.pc = next]
        /\ UNCHANGED <<s, now, last, lvl, rd, epoch, irqc>>

(* uint32_t a - b                                                          *)
sub_u32(a, b) == (a - b) % U32

(* uint64_t a - b; the double word does not wrap within the bounds.        *)
sub_u64(a, b) == a - b

(* The deltas against the baseline, and their running sums.                *)
Deltas(c) ==
  [c EXCEPT !.dpulses = sub_u64(c.pulses, c.last_pulses),
            !.dtimer_cb = sub_u32(c.timer_cb, c.last_timer_cb),
            !.dcfg = sub_u32(c.cfg_writes, c.last_cfg_writes),
            !.dtog = sub_u32(c.en_toggles, c.last_en_toggles),
            !.sum = [pulses |-> @.pulses
                                + sub_u64(c.pulses, c.last_pulses),
                     timer_cb |-> @.timer_cb
                                + sub_u32(c.timer_cb, c.last_timer_cb),
                     cfg_writes |-> @.cfg_writes
                                + sub_u32(c.cfg_writes, c.last_cfg_writes),
                     en_toggles |-> @.en_toggles
                                + sub_u32(c.en_toggles, c.last_en_toggles)]]

(* The report ending with handled started afresh.                          *)
ConsRepEmit_reset_handled ==
  /\ cons.pc = "rep_emit"
  /\ cons' = [Deltas(cons) EXCEPT !.pc = "wait", !.handled = 0,
                                  !.last_pulses = cons.pulses,
                                  !.last_timer_cb = cons.timer_cb,
                                  !.last_cfg_writes = cons.cfg_writes,
                                  !.last_en_toggles = cons.en_toggles]
  /\ UNCHANGED <<s, now, last, lvl, rd, epoch, irqc>>

(* The report ending with the baseline of pulses left as it was.           *)
ConsRepEmit_keep_pulses_baseline ==
  /\ cons.pc = "rep_emit"
  /\ cons' = [Deltas(cons) EXCEPT !.pc = "wait",
                                  !.last_timer_cb = cons.timer_cb,
                                  !.last_cfg_writes = cons.cfg_writes,
                                  !.last_en_toggles = cons.en_toggles]
  /\ UNCHANGED <<s, now, last, lvl, rd, epoch, irqc>>

(* dpulses = pulses - last_pulses; dtimer_cb = timer_cb - last_timer_cb;   *)
(* dcfg = cfg_writes - last_cfg_writes; dtog = en_toggles - last_en_toggles*)
(* printf("storm: ..."); last_pulses = pulses; last_timer_cb = timer_cb;   *)
(* last_cfg_writes = cfg_writes; last_en_toggles = en_toggles;             *)
ConsRepEmit ==
  /\ cons.pc = "rep_emit"
  /\ cons' = [Deltas(cons) EXCEPT !.pc = "wait",
                                  !.last_pulses = cons.pulses,
                                  !.last_timer_cb = cons.timer_cb,
                                  !.last_cfg_writes = cons.cfg_writes,
                                  !.last_en_toggles = cons.en_toggles]
  /\ UNCHANGED <<s, now, last, lvl, rd, epoch, irqc>>

NextLoop ==
  \/ ConsWait \/ ConsStatus \/ ConsDevAck \/ ConsIrqAck
  \/ ConsRepCall \/ RdHi1 \/ RdLo \/ RdHi2 \/ ConsRepPulses
  \/ ConsRepRead \/ ConsRepEmit
  \/ TimerFire \/ Tick

SpecLoop == InitLoop /\ [][NextLoop]_vars

----------------------------------------------------------------------------
(* The service loop against the device in level mode, with every           *)
(* seL4_IRQHandler_Ack succeeding and the consumer thread scheduled        *)
(* whenever it can take a step. Besides the starts of the loop above, the  *)
(* loop may be entered with the line already raised by a fire that came    *)
(* before the handler was bound: the handler's first acknowledgment then   *)
(* delivers it, and the baseline is read with that fire counted.           *)

LiveHeldDevice ==
  [LoopDevice(1, TRUE) EXCEPT !.irq_asserted = TRUE, !.irq_level = 1]

LiveHeldConsumer ==
  [ ConsOff EXCEPT
      !.pc = "wait",
      !.last_status = io_in8(LiveHeldDevice, IRQ_STORM_REG_STATUS),
      !.last_pulses = 1, !.last_timer_cb = 1,
      !.base0 = [NoCounts EXCEPT !.pulses = 1, !.timer_cb = 1] ]

InitLive ==
  \/ /\ InitLoop
     /\ HasBit(s.control, IRQ_STORM_CTRL_LEVEL)
  \/ /\ s = LiveHeldDevice
     /\ now = SCALE_US
     /\ last = NoOp(s)
     /\ lvl = [ack |-> Zero, en |-> Zero]
     /\ rd = RdIdle
     /\ epoch = [t |-> SCALE_US, fires |-> 1, cfg |-> 0]
     /\ cons = LiveHeldConsumer
     /\ irqc = irq_unmask([IrqBound EXCEPT
                             !.high = [kind |-> "raise", fires |-> 1,
                                       pulses |-> 1]], s)

ConsIrqAckOk == ConsIrqAck /\ cons'.err = 0

ConsumerStep ==
  \/ ConsWait \/ ConsStatus \/ ConsDevAck \/ ConsIrqAckOk
  \/ ConsRepCall \/ RdHi1 \/ RdLo \/ RdHi2 \/ ConsRepPulses
  \/ ConsRepRead \/ ConsRepEmit

NextLive == ConsumerStep \/ TimerFire \/ Tick

SpecLive == InitLive /\ [][NextLive]_vars /\ WF_vars(ConsumerStep)

----------------------------------------------------------------------------
(* The service loop of the first consumer program, which has written 1 to  *)
(* CTRL (edge mode, enabled) and reads PULSES_LO and PULSES_HI on every    *)
(* wake; started where the low word of pulses_emitted is about to carry.   *)

InitFirst ==
  \E n \in NearCarry :
    /\ s = LoopDevice(n, FALSE)
    /\ now = n * SCALE_US
    /\ last = NoOp(s)
    /\ lvl = [ack |-> Zero, en |-> Zero]
    /\ rd = RdIdle
    /\ epoch = [t |-> n * SCALE_US, fires |-> n, cfg |-> 0]
    /\ cons = [ConsOff EXCEPT !.pc = "first_wait"]
    /\ irqc = IrqBound

(* seL4_Wait(ntfn, &badge);                                                *)
FirstWait ==
  /\ cons.pc = "first_wait"
  /\ irqc.ntfn
  /\ cons' = [cons EXCEPT !.pc = "first_pulses", !.woke = irqc.cause]
  /\ irqc' = [irqc EXCEPT !.ntfn = FALSE]
  /\ rd' = [RdIdle EXCEPT !.pc = "first_lo", !.held = {s.pulses_emitted}]
  /\ UNCHANGED <<s, now, last, lvl, epoch>>

(* pulses_lo = io_in32(io, REG_PULSES_LO);                                 *)
FirstLo ==
  /\ rd.pc = "first_lo"
  /\ rd' = [rd EXCEPT !.pc = "first_hi",
                      !.lo = io_in32(s, IRQ_STORM_REG_PULSES_LO)]
  /\ UNCHANGED <<s, now, last, lvl, epoch, cons, irqc>>

(* pulses_hi = io_in32(io, REG_PULSES_HI);                                 *)
(* pulses = ((uint64_t)pulses_hi << 32) | pulses_lo;                       *)
FirstHi ==
  /\ rd.pc = "first_hi"
  /\ LET hi == io_in32(s, IRQ_STORM_REG_PULSES_HI)
     IN  rd' = [rd EXCEPT !.pc = "first_done", !.hi2 = hi,
                         !.ret = lohi_value(hi, rd.lo)]
  /\ UNCHANGED <<s, now, last, lvl, epoch, cons, irqc>>

(* status = io_in8(io, REG_STATUS); printf("IRQ storm: ...");              *)
FirstStatus ==
  /\ cons.pc = "first_pulses"
  /\ rd.pc = "first_done"
  /\ cons' = [cons EXCEPT !.pc = "first_irq_ack", !.pulses = rd.ret,
                          !.last_status = io_in8(s, IRQ_STORM_REG_STATUS)]
  /\ rd' = RdIdle
  /\ UNCHANGED <<s, now, last, lvl, epoch, irqc>>

(* err = seL4_IRQHandler_Ack(irq_handler); if (err) printf(...);           *)
FirstIrqAck ==
  /\ cons.pc = "first_irq_ack"
  /\ \E err \in IrqAckErrs :
       /\ irqc' = IF err = 0 THEN irq_unmask(irqc, s) ELSE irqc
       /\ cons' = [cons EXCEPT !.pc = "first_wait", !.err = err]
  /\ UNCHANGED <<s, now, last, lvl, rd, epoch>>

NextFirst ==
  \/ FirstWait \/ FirstLo \/ FirstHi \/ FirstStatus \/ FirstIrqAck
  \/ TimerFire \/ Tick

SpecFirst == InitFirst /\ [][NextFirst]_vars

----------------------------------------------------------------------------
(* Properties.                                                             *)

Enabled(st) == HasBit(st.control, IRQ_STORM_CTRL_ENABLE)
Level(st) == HasBit(st.control, IRQ_STORM_CTRL_LEVEL)

clamp(x, lo, hi) == IF x < lo THEN lo ELSE IF x > hi THEN hi ELSE x

Wrote(reg) == last.op = "write" /\ last.addr = reg

(* C1: across reads, writes and fires, none of pulses_emitted,             *)
(* timer_cb_count, config_writes and enable_toggle_count ever decreases.   *)
C1_CountersMonotonic ==
  [][ /\ s'.pulses_emitted >= s.pulses_emitted
      /\ s'.timer_cb_count >= s.timer_cb_count
      /\ s'.config_writes >= s.config_writes
      /\ s'.enable_toggle_count >= s.enable_toggle_count ]_vars

C1_Witness ==
  /\ s.pulses_emitted > 5
  /\ s.timer_cb_count > 1
  /\ s.config_writes > 1
  /\ s.enable_toggle_count > 1

(* C2: the value read_u64_lohi_stable returns is a value pulses_emitted    *)
(* held at some moment between the start and the return of the call,       *)
(* whatever fires ran between its three register reads.                    *)
C2_StableReadHeld == rd.pc = "done" => rd.ret \in rd.held

C2_Witness ==
  /\ rd.pc = "done"
  /\ rd.ret >= U32
  /\ \E v \in rd.held : v < U32

(* C3 as stated: while LEVEL is set, between two consecutive ACK writes    *)
(* the line is raised at most once and pulses_emitted grows by at most 1.  *)
C3_Original == lvl.ack.r <= 1 /\ lvl.ack.p <= 1

(* C3 as amended: while LEVEL is set, between two consecutive writes that  *)
(* are an ACK write or a CTRL write clearing ENABLE, the line is raised at *)
(* most once and pulses_emitted grows by at most 1, however many fires     *)
(* run in between.                                                         *)
C3_SingleAssert == lvl.en.r <= 1 /\ lvl.en.p <= 1

C3_Witness ==
  /\ last.op = "fire"
  /\ Level(last.pre) /\ last.pre.irq_asserted
  /\ s.timer_cb_count >= 2
  /\ lvl.en.r = 1 /\ lvl.en.p = 1

(* C4: a fire with ENABLE set and LEVEL clear adds exactly                 *)
(* clamp(burst, 1, MAX_BURST) to pulses_emitted and leaves the line        *)
(* deasserted.                                                             *)
C4_EdgeBurst ==
  (last.op = "fire" /\ Enabled(last.pre) /\ ~Level(last.pre))
    => /\ s.pulses_emitted = last.pre.pulses_emitted
                               + clamp(last.pre.burst, 1, IRQ_STORM_MAX_BURST)
       /\ ~s.irq_asserted
       /\ s.irq_level = 0

C4_Witness ==
  /\ last.op = "fire" /\ Enabled(last.pre) /\ ~Level(last.pre)
  /\ last.pre.burst > IRQ_STORM_MAX_BURST
  /\ s.pulses_emitted = last.pre.pulses_emitted + IRQ_STORM_MAX_BURST

(* C5: a write to CTRL, BURST or PERIOD_US adds 1 to config_writes when    *)
(* the (masked, for CTRL) value differs from the stored one and 0 when it  *)
(* is equal.                                                               *)
C5_DebouncedConfig ==
  /\ Wrote(IRQ_STORM_REG_CTRL) =>
       s.config_writes = last.pre.config_writes
         + (IF last.val % 4 # last.pre.control THEN 1 ELSE 0)
  /\ Wrote(IRQ_STORM_REG_BURST) =>
       s.config_writes = last.pre.config_writes
         + (IF last.val # last.pre.burst THEN 1 ELSE 0)
  /\ Wrote(IRQ_STORM_REG_PERIOD_US) =>
       s.config_writes = last.pre.config_writes
         + (IF last.val # last.pre.period_us THEN 1 ELSE 0)

C5_Witness ==
  /\ Wrote(IRQ_STORM_REG_BURST)
  /\ last.val = 100001 /\ last.pre.burst = 100001
  /\ s.config_writes = last.pre.config_writes

(* C6: a fire run at time now >= D with deadline D and period P moves the  *)
(* deadline to D + k*P, k the smallest positive integer with D + k*P > now,*)
(* and adds exactly 1 to timer_cb_count.  P is the configured period,      *)
(* max(1, period_us) microseconds.                                         *)
C6_DriftCorrection ==
  [][ s'.timer_cb_count # s.timer_cb_count =>
        LET D == s.next_deadline_ns
            P == Max(1, s.period_us) * SCALE_US
            k == (now - D) \div P + 1
        IN  /\ now >= D
            /\ s'.next_deadline_ns = D + k * P
            /\ s'.timer_cb_count = s.timer_cb_count + 1 ]_vars

(* C7: a CTRL write with ENABLE clear, made while ENABLE is clear, leaves  *)
(* enable_toggle_count unchanged, the line deasserted and no fire pending. *)
C7_DisableIdempotent ==
  (Wrote(IRQ_STORM_REG_CTRL) /\ ~HasBit(last.val, IRQ_STORM_CTRL_ENABLE)
     /\ ~Enabled(last.pre))
    => /\ s.enable_toggle_count = last.pre.enable_toggle_count
       /\ ~last.pre.irq_asserted /\ ~s.irq_asserted
       /\ ~last.pre.timer_pending /\ ~s.timer_pending

C7_Witness ==
  /\ Wrote(IRQ_STORM_REG_CTRL) /\ ~HasBit(last.val, IRQ_STORM_CTRL_ENABLE)
  /\ ~Enabled(last.pre)
  /\ last.pre.control # s.control
  /\ last.pre.enable_toggle_count > 0

(* C8: in every state with ENABLE clear no fire is pending and the line is *)
(* deasserted, and timer_cb_count and pulses_emitted do not change in a    *)
(* step taken from a state with ENABLE clear.                              *)
C8_DisabledQuiet ==
  /\ [](~Enabled(s) => ~s.timer_pending /\ ~s.irq_asserted)
  /\ [][ ~Enabled(s) => /\ s'.timer_cb_count = s.timer_cb_count
                        /\ s'.pulses_emitted = s.pulses_emitted ]_vars

C8_Witness ==
  /\ Wrote(IRQ_STORM_REG_CTRL)
  /\ Enabled(last.pre) /\ ~Enabled(s)
  /\ last.pre.irq_asserted /\ last.pre.timer_pending
  /\ now >= last.pre.timer_expire

(* C9: a read of an offset that is not a readable register returns 0, and  *)
(* a write to an offset other than CTRL, BURST, PERIOD_US and ACK leaves   *)
(* the device state unchanged.                                             *)
C9_UndefinedOffsets ==
  /\ s.life = "realized" =>
       \A a \in Addrs \ ReadableRegs : irq_storm_read(s, a) = 0
  /\ (last.op = "read" /\ last.addr \notin ReadableRegs) => last.ret = 0
  /\ (last.op = "write" /\ last.addr \notin WritableRegs) => s = last.pre

C9_Witness ==
  /\ last.op = "write" /\ last.addr = 29 /\ last.val # 0
  /\ s.irq_asserted
  /\ s.timer_pending

(* C10: realize with line > 15 or iosize < 0x20 ends in an error with no   *)
(* timer created or armed, no io region mapped, control 0 and the counters *)
(* untouched; with line <= 15 and iosize >= 0x20 it succeeds.              *)
C10_RealizeValidation ==
  last.op = "realize" =>
    IF last.pre.isairq > 15 \/ last.pre.iosize < 32
      THEN s = [last.pre EXCEPT !.life = "error"]
      ELSE s.life = "realized" /\ s.timer_created /\ s.io_mapped

C10_Witness ==
  /\ last.op = "realize"
  /\ last.pre.isairq <= 15 /\ last.pre.iosize < 32
  /\ last.pre.start_enabled /\ last.pre.level_triggered
  /\ s.life = "error" /\ s.control = 0
  /\ ~s.timer_created /\ ~s.timer_pending /\ ~s.io_mapped

(* C15: a read of STATUS returns bit0 = ENABLE of control, bit1 = asserted,*)
(* bit2 = LEVEL of control and nothing else, and changes nothing.          *)
C15_StatusDerived ==
  LET expected(st) == (IF Enabled(st) THEN 1 ELSE 0)
                      + (IF st.irq_asserted THEN 2 ELSE 0)
                      + (IF Level(st) THEN 4 ELSE 0)
  IN  /\ s.life = "realized" =>
           irq_storm_read(s, IRQ_STORM_REG_STATUS) = expected(s)
      /\ (last.op = "read" /\ last.addr = IRQ_STORM_REG_STATUS) =>
           last.ret = expected(last.pre) /\ s = last.pre

C15_Witness ==
  /\ last.op = "read" /\ last.addr = IRQ_STORM_REG_STATUS
  /\ last.ret = 7
  /\ s.irq_asserted /\ s.control = 3

(* C16: asserted is true only if both LEVEL and ENABLE are set in control. *)
C16_AssertedNeedsLevelEnable == s.irq_asserted => Level(s) /\ Enabled(s)

C16_Witness ==
  /\ Wrote(IRQ_STORM_REG_CTRL)
  /\ last.pre.irq_asserted /\ last.pre.control = 3
  /\ s.control = 1
  /\ ~s.irq_asserted

(* C17: a write changes next_deadline only as a CTRL write taking ENABLE   *)
(* from 0 to 1 or a PERIOD_US write changing the value while ENABLE is     *)
(* set, and then to now + period (the configured period, max(1, period_us) *)
(* microseconds); CTRL with ENABLE staying set, PERIOD_US rewritten to its *)
(* value, BURST and ACK leave next_deadline and the pending fire alone.    *)
C17_DeadlineOnWrite ==
  [][ (last'.op = "write" /\ last' # last) =>
        LET a == last'.addr
            v == last'.val
            rearm == \/ /\ a = IRQ_STORM_REG_CTRL
                        /\ ~Enabled(s) /\ HasBit(v, IRQ_STORM_CTRL_ENABLE)
                     \/ /\ a = IRQ_STORM_REG_PERIOD_US
                        /\ v # s.period_us /\ Enabled(s)
            disable == /\ a = IRQ_STORM_REG_CTRL
                       /\ ~HasBit(v, IRQ_STORM_CTRL_ENABLE)
        IN  IF rearm
              THEN /\ s'.next_deadline_ns
                        = now + Max(1, s'.period_us) * SCALE_US
                   /\ s'.timer_pending
                   /\ s'.timer_expire = s'.next_deadline_ns
              ELSE /\ s'.next_deadline_ns = s.next_deadline_ns
                   /\ ~disable => /\ s'.timer_pending = s.timer_pending
                                  /\ s'.timer_expire = s.timer_expire ]_vars

(* C18: an ACK write of a non-zero value while asserted clears asserted;   *)
(* an ACK write of zero or while not asserted changes nothing; no ACK      *)
(* write changes control, burst, period_us, next_deadline or a counter.    *)
C18_AckWrite ==
  Wrote(IRQ_STORM_REG_ACK) =>
    /\ IF last.val # 0 /\ last.pre.irq_asserted
         THEN ~s.irq_asserted /\ s.irq_level = 0
         ELSE s = last.pre
    /\ s.control = last.pre.control
    /\ s.burst = last.pre.burst
    /\ s.period_us = last.pre.period_us
    /\ s.next_deadline_ns = last.pre.next_deadline_ns
    /\ s.pulses_emitted = last.pre.pulses_emitted
    /\ s.timer_cb_count = last.pre.timer_cb_count
    /\ s.config_writes = last.pre.config_writes
    /\ s.enable_toggle_count = last.pre.enable_toggle_count

C18_Witness ==
  /\ Wrote(IRQ_STORM_REG_ACK)
  /\ last.val # 0 /\ last.pre.irq_asserted
  /\ ~s.irq_asserted
  /\ s.timer_pending

(* C19: every fire run while ENABLE is set adds exactly 1 to               *)
(* timer_cb_count and arms the timer once, at the new deadline, in either  *)
(* mode and however late; a level-mode fire with the line already          *)
(* asserted leaves asserted and pulses_emitted as they were.               *)
C19_FireCountsAndArms ==
  (last.op = "fire" /\ Enabled(last.pre)) =>
    /\ s.timer_cb_count = last.pre.timer_cb_count + 1
    /\ s.life = "realized"
    /\ s.timer_pending
    /\ s.timer_expire = s.next_deadline_ns
    /\ (Level(last.pre) /\ last.pre.irq_asserted) =>
         /\ s.irq_asserted
         /\ s.pulses_emitted = last.pre.pulses_emitted

(* C20: pulses_emitted <= MAX_BURST * timer_cb_count in every state.       *)
C20_BurstCeiling ==
  s.pulses_emitted <= IRQ_STORM_MAX_BURST * s.timer_cb_count

C20_Witness ==
  /\ s.timer_cb_count >= 1
  /\ last.op = "fire" /\ last.pre.burst > IRQ_STORM_MAX_BURST
  /\ s.pulses_emitted = IRQ_STORM_MAX_BURST * s.timer_cb_count

ReportPcs ==
  {"report", "rep_pulses", "rep_emit"}
  \cup {ReportReads[i].pc : i \in 1..Len(ReportReads)}

ConsStep == cons'.pc # cons.pc \/ rd'.pc # rd.pc

(* C11: when the consumer was woken by the line raised by a level-mode     *)
(* fire, the STATUS it reads on that wake has ASSERT and LEVEL set, and    *)
(* timer_cb_count and pulses_emitted already include that fire.            *)
C11_FireCommittedBeforeWake ==
  (cons.pc = "ack" /\ cons.woke.kind = "raise") =>
    /\ HasBit(cons.last_status, IRQ_STORM_STATUS_ASSERT)
    /\ HasBit(cons.last_status, IRQ_STORM_STATUS_LEVEL)
    /\ s.timer_cb_count >= cons.woke.fires
    /\ s.pulses_emitted >= cons.woke.pulses

C11_Witness ==
  /\ cons.pc = "ack" /\ cons.woke.kind = "raise"
  /\ cons.last_status = 7
  /\ s.timer_cb_count = cons.woke.fires
  /\ cons.woke.fires > epoch.fires

(* C12: in every iteration in which STATUS showed LEVEL and ASSERT, the    *)
(* non-zero ACK write has been made when the handler is acknowledged; and  *)
(* the handler is acknowledged in every iteration, ACK written or not.     *)
C12_DeviceAckBeforeIrqAck ==
  /\ ( /\ cons.irq_acked
       /\ HasBit(cons.last_status, IRQ_STORM_STATUS_LEVEL)
       /\ HasBit(cons.last_status, IRQ_STORM_STATUS_ASSERT) )
       => cons.dev_acked
  /\ (cons.pc \in {"wait"} \cup ReportPcs /\ cons.handled > 0)
       => cons.irq_acked
  /\ (cons.pc \in {"status", "ack", "irq_ack"}) => ~cons.irq_acked

C12_Witness ==
  /\ cons.pc = "wait" /\ cons.handled > epoch.fires
  /\ cons.irq_acked /\ cons.dev_acked
  /\ cons.last_status = 7
  /\ last.op = "write" /\ last.addr = IRQ_STORM_REG_ACK /\ last.val # 0

(* C13: after seL4_IRQHandler_Ack returned an error the consumer has       *)
(* counted the wake in handled and goes on to wait (or to the report due   *)
(* first); there is no state in which it has stopped.                      *)
C13_IrqAckErrorIgnored ==
  /\ cons.pc \in {"wait", "status", "ack", "irq_ack"} \cup ReportPcs
  /\ (cons.irq_acked /\ cons.err # 0) =>
       /\ cons.handled = cons.woke_handled + 1
       /\ cons.pc \in {"wait"} \cup ReportPcs

C13_Witness ==
  /\ cons.irq_acked /\ cons.err # 0
  /\ cons.pc = "wait"
  /\ cons.handled = cons.woke_handled + 1
  /\ cons.handled > epoch.fires

(* C14: a step of the report changes nothing of the device and, of the     *)
(* consumer, nothing but the baseline snapshot, and that only as the       *)
(* report ends; the STATUS read of an iteration changes nothing of the     *)
(* device either.                                                          *)
C14_ReportObserves ==
  [][ /\ (cons.pc \in ReportPcs /\ ConsStep) =>
           /\ s' = s
           /\ irqc' = irqc
           /\ cons'.handled = cons.handled
           /\ cons'.last_status = cons.last_status
           /\ cons'.last_badge = cons.last_badge
           /\ cons.pc # "rep_emit" =>
                /\ cons'.last_pulses = cons.last_pulses
                /\ cons'.last_timer_cb = cons.last_timer_cb
                /\ cons'.last_cfg_writes = cons.last_cfg_writes
                /\ cons'.last_en_toggles = cons.last_en_toggles
      /\ (cons.pc = "status" /\ ConsStep) => s' = s ]_vars

C14_Witness ==
  /\ cons.pc = "wait"
  /\ cons.handled = report_every_handled
  /\ cons.last_timer_cb >= report_every_handled
  /\ cons.last_pulses = s.pulses_emitted

(* C21: every arm sets next_deadline to now + p * 1000 ns for the          *)
(* PERIOD_US value p >= 1 in force, with no wrap-around or truncation:     *)
(* the arm of realize with start-enabled, of a CTRL write setting ENABLE   *)
(* and of a PERIOD_US write changing the value while ENABLE is set.        *)
C21_ArmAddsConfiguredPeriod ==
  [][ LET armed ==
            \/ /\ last'.op = "realize" /\ last' # last
               /\ s'.life = "realized" /\ Enabled(s')
            \/ /\ last'.op = "write" /\ last' # last
               /\ last'.addr = IRQ_STORM_REG_CTRL
               /\ ~Enabled(s) /\ Enabled(s')
            \/ /\ last'.op = "write" /\ last' # last
               /\ last'.addr = IRQ_STORM_REG_PERIOD_US
               /\ s'.period_us # s.period_us /\ Enabled(s)
      IN  (armed /\ s'.period_us >= 1) =>
            s'.next_deadline_ns = now + s'.period_us * SCALE_US ]_vars

(* C25: in every state of the realized device the ENABLE bit differs from  *)
(* the value realize gave it (start-enabled) iff enable_toggle_count is    *)
(* odd, and enable_toggle_count <= config_writes.                          *)
C25_ToggleParity ==
  s.life \in {"realized", "crashed"} =>
    /\ (Enabled(s) # s.start_enabled) <=> (s.enable_toggle_count % 2 = 1)
    /\ s.enable_toggle_count <= s.config_writes

C25_Witness ==
  /\ Wrote(IRQ_STORM_REG_CTRL)
  /\ s.enable_toggle_count = 1 /\ s.config_writes = 2
  /\ Enabled(s) # s.start_enabled

(* C24: every consumer loop that combines PULSES_HI and PULSES_LO, the     *)
(* per-interrupt read of the first program included, ends with a pair      *)
(* that is a value pulses_emitted held while the registers were read.      *)
C24_FirstLoopReadHeld == rd.pc = "first_done" => rd.ret \in rd.held

(* C22: the consumer is in the report only with handled a positive        *)
(* multiple of 2^16, and the iteration whose wake brought handled to such  *)
(* a multiple goes from the handler acknowledgment into the report, every  *)
(* other iteration straight back to the wait.                              *)
C22_ReportCadence ==
  /\ [](cons.pc \in ReportPcs =>
          (cons.handled > 0 /\ cons.handled % (2^16) = 0))
  /\ [][ /\ (cons.pc = "irq_ack" /\ cons'.pc # cons.pc) =>
              /\ cons'.handled = cons.handled
              /\ cons'.pc = IF cons.handled > 0 /\ cons.handled % (2^16) = 0
                              THEN "report" ELSE "wait"
         /\ (cons'.pc = "report" /\ cons.pc # "report") =>
              cons.pc = "irq_ack" ]_vars

C22_Witness ==
  /\ cons.pc = "report"
  /\ cons.handled = 2^16
  /\ cons.woke_handled = 2^16 - 1
  /\ cons.irq_acked

(* C23: each reported delta is the new snapshot of its counter minus the   *)
(* previous baseline (modulo the word for timer_cb, cfg_writes and         *)
(* en_toggles), the snapshot being the register as read, and the baseline  *)
(* is then the snapshot; so the deltas reported for a counter sum to its   *)
(* latest baseline minus the baseline read before the loop.                *)
C23_DeltasTelescope ==
  /\ [][ (cons.pc = "rep_emit" /\ cons'.pc # cons.pc) =>
           /\ cons'.dpulses = cons.pulses - cons.last_pulses
           /\ cons'.dtimer_cb = (cons.timer_cb - cons.last_timer_cb) % U32
           /\ cons'.dcfg = (cons.cfg_writes - cons.last_cfg_writes) % U32
           /\ cons'.dtog = (cons.en_toggles - cons.last_en_toggles) % U32
           /\ cons'.last_pulses = cons.pulses
           /\ cons'.last_timer_cb = cons.timer_cb
           /\ cons'.last_cfg_writes = cons.cfg_writes
           /\ cons'.last_en_toggles = cons.en_toggles ]_vars
  /\ [][ /\ (cons.pc = "rep_pulses" /\ cons'.pc # cons.pc) =>
              cons'.pulses \in rd.held
         /\ (cons.pc = "rep_timer_cb" /\ cons'.pc # cons.pc) =>
              cons'.timer_cb = s.timer_cb_count % U32
         /\ (cons.pc = "rep_cfg_writes" /\ cons'.pc # cons.pc) =>
              cons'.cfg_writes = s.config_writes % U32
         /\ (cons.pc = "rep_en_toggles" /\ cons'.pc # cons.pc) =>
              cons'.en_toggles = s.enable_toggle_count % U32 ]_vars
  /\ [](cons.pc \in {"wait", "status", "ack", "irq_ack"} \cup ReportPcs =>
          /\ cons.base0.pulses + cons.sum.pulses = cons.last_pulses
          /\ (cons.base0.timer_cb + cons.sum.timer_cb) % U32
               = cons.last_timer_cb
          /\ (cons.base0.cfg_writes + cons.sum.cfg_writes) % U32
               = cons.last_cfg_writes
          /\ (cons.base0.en_toggles + cons.sum.en_toggles) % U32
               = cons.last_en_toggles)

C23_Witness ==
  /\ cons.pc = "wait"
  /\ cons.handled = U32
  /\ cons.dtimer_cb = 2^16
  /\ cons.last_timer_cb = 0
  /\ cons.sum.timer_cb = U32
  /\ cons.dpulses > 0 /\ cons.last_pulses = s.pulses_emitted

(* C26: in level mode, with the consumer loop running fairly and every     *)
(* handler acknowledgment succeeding, every state with asserted true is    *)
(* eventually followed by a state with asserted false.                     *)
C26_AssertedEventuallyAcked == s.irq_asserted ~> ~s.irq_asserted

C26_Witness ==
  /\ Wrote(IRQ_STORM_REG_ACK)
  /\ last.pre.irq_asserted /\ ~s.irq_asserted
  /\ cons.pc = "irq_ack"
  /\ cons.woke.kind = "raise"
  /\ irqc.masked

====
